---- MODULE Spec2Model ----
(***************************************************************************)
(* Gaming session manager (GamingSessionManager, src/unnamed/part_002).    *)
(*                                                                         *)
(* Time is counted in minutes.  A session record is a heap object: the     *)
(* registry (activeSessions), the handlers suspended in an await and the   *)
(* reminder closure all hold references to it, so records live in the      *)
(* sequence `sessions` and are referred to by their index.  The message    *)
(* that shows record r has message id r.                                   *)
(***************************************************************************)
EXTENDS Integers, Sequences, FiniteSets, TLC

VARIABLES
    now,                \* Date.now(), in minutes
    nextSweep,          \* next instant of the setInterval of the constructor
    sessions,           \* heap of sessionData objects, by reference
    activeSessions,     \* Map: session id -> reference to a sessionData
    scheduledReminders, \* Map: session id -> timeout handle (reference of the record that armed it)
    reminderTimers,     \* per record: the setTimeout of scheduleReminder and its callback's position
    graceTimers,        \* pending setTimeout callbacks of handleLeave: [id, at]
    cleanupTimers,      \* pending setTimeout callbacks of sendGameTimeReminder: [id, at]
    inflight,           \* handlers suspended in an await: [kind, r, user, pc]
    lastReply,          \* the answer the step just taken gave its requester, if it only answered
    ops,                \* number of creates and of button actions that changed a record so far
    endedEarly          \* history: ids a host ended strictly before the scheduled time

vars == <<now, nextSweep, sessions, activeSessions, scheduledReminders, reminderTimers,
          graceTimers, cleanupTimers, inflight, lastReply, ops, endedEarly>>

----------------------------------------------------------------------------
(* Program constants, in minutes *)

GracePeriod == 5
SweepInterval == 30
EmptyAge == 30
FourHours == 240
AutoCleanup == 120
MaxAhead == 1440
MaxAmount == 1440

(* Bounds of the model *)

MaxSessions == 2
MaxIds == 1
MaxInflight == 1
MaxTime == 300
MaxOps == 4
MaxCreateTime == 0
FineUntil == 15

\* the clock advances by the smallest duration the program uses
TickStep == GracePeriod

Users == {"u1", "u2"}

NoMessage == 0

NoReply == "none"

----------------------------------------------------------------------------
(* JavaScript Map helpers *)

MapSet(m, k, v) == [x \in (DOMAIN m) \cup {k} |-> IF x = k THEN v ELSE m[x]]

MapDelete(m, k) == [x \in (DOMAIN m) \ {k} |-> m[x]]

EmptyMap == [x \in {} |-> 0]

\* participants is a Map in insertion order: a sequence of [user, isHost]
Keys(parts) == {parts[i].user : i \in 1..Len(parts)}

\* a membership test that always answers yes
Has_Always(parts, u) == TRUE

Has(parts, u) == u \in Keys(parts)

ParticipantsSet(parts, u, host) == Append(parts, [user |-> u, isHost |-> host])

ParticipantsDelete(parts, u) == SelectSeq(parts, LAMBDA p : p.user # u)

IsHostOf(parts, u) == \E i \in 1..Len(parts) : parts[i].user = u /\ parts[i].isHost

----------------------------------------------------------------------------
(* parseTimeInput: the time expressions are given already split by the     *)
(* regular expressions of the parser:                                      *)
(*   [form |-> "now"]                                                      *)
(*   [form |-> "in", amount |-> N, unit |-> the word after the number]     *)
(*   [form |-> "at", hours |-> H, minutes |-> M, meridiem |-> "" | "am" | "pm"] *)
(*   [form |-> "other"]                                                    *)

MinutesPerDay == 1440

ParseFailure == [success |-> FALSE, timestamp |-> 0]

\* the words the regular expression of the "in" form accepts as unit
Units == {"minute", "minutes", "hour", "hours", "min", "mins", "hr", "hrs"}

\* a unit test that takes every unit for minutes
IsHours_Never(unit) == FALSE

\* unit.startsWith('h')
IsHours(unit) == unit \in {"hour", "hours", "hr", "hrs"}

AtHours(inp) ==
    IF inp.meridiem = "pm" /\ inp.hours # 12 THEN inp.hours + 12
    ELSE IF inp.meridiem = "am" /\ inp.hours = 12 THEN 0
    ELSE inp.hours

AtTarget(inp, t) ==
    LET today == (t - (t % MinutesPerDay)) + AtHours(inp) * 60 + inp.minutes
    IN  IF today <= t THEN today + MinutesPerDay ELSE today

ParseTimeInput(inp, t) ==
    IF inp.form = "now" THEN [success |-> TRUE, timestamp |-> t]
    ELSE IF inp.form = "in" /\ inp.unit \in Units THEN
        IF inp.amount <= 0 \/ inp.amount > MaxAmount THEN ParseFailure
        ELSE [success |-> TRUE,
              timestamp |-> t + inp.amount * (IF IsHours(inp.unit) THEN 60 ELSE 1)]
    ELSE IF inp.form = "at" THEN
        IF inp.hours < 0 \/ inp.hours > 23 \/ inp.minutes < 0 \/ inp.minutes > 59
        THEN ParseFailure
        ELSE [success |-> TRUE, timestamp |-> AtTarget(inp, t)]
    ELSE ParseFailure

TimeInputs ==
    { [form |-> "now"],
      [form |-> "in", amount |-> 5, unit |-> "minutes"],
      [form |-> "in", amount |-> 5, unit |-> "hours"],
      [form |-> "in", amount |-> 25, unit |-> "hours"],
      [form |-> "in", amount |-> 0, unit |-> "minutes"],
      [form |-> "other"] }

----------------------------------------------------------------------------
(* State after the constructor *)

Refs == 1..Len(sessions)

\* the manager is constructed at instant t
InitAt(t) ==
    /\ now = t
    /\ nextSweep = t + SweepInterval
    /\ sessions = <<>>
    /\ activeSessions = EmptyMap
    /\ scheduledReminders = EmptyMap
    /\ reminderTimers = <<>>
    /\ graceTimers = {}
    /\ cleanupTimers = {}
    /\ inflight = {}
    /\ lastReply = NoReply
    /\ ops = 0
    /\ endedEarly = {}

Init == InitAt(0)

----------------------------------------------------------------------------
(* endSession(sessionId): clears and forgets the reminder handle, flags    *)
(* the registered record inactive and deletes the registry entry.          *)

\* a clearTimeout that cancels every pending reminder
ClearTimeout_All(timers, ids) ==
    [r \in DOMAIN timers |->
        IF timers[r].state = "armed" THEN [timers[r] EXCEPT !.state = "cleared"]
        ELSE timers[r]]

ClearTimeout(timers, ids) ==
    [r \in DOMAIN timers |->
        IF timers[r].state = "armed" /\ (\E id \in ids : id \in DOMAIN scheduledReminders
                                                        /\ scheduledReminders[id] = r)
        THEN [timers[r] EXCEPT !.state = "cleared"]
        ELSE timers[r]]

\* an endSession that clears the timer but keeps its handle in the map
EndSessions_KeepHandle(ids) ==
    /\ reminderTimers' = ClearTimeout(reminderTimers, ids)
    /\ scheduledReminders' = scheduledReminders
    /\ sessions' = [r \in DOMAIN sessions |->
                        IF \E id \in ids : id \in DOMAIN activeSessions /\ activeSessions[id] = r
                        THEN [sessions[r] EXCEPT !.isActive = FALSE]
                        ELSE sessions[r]]
    /\ activeSessions' = [id \in (DOMAIN activeSessions) \ ids |-> activeSessions[id]]

EndSessions(ids) ==
    /\ reminderTimers' = ClearTimeout(reminderTimers, ids)
    /\ scheduledReminders' = [id \in (DOMAIN scheduledReminders) \ ids |-> scheduledReminders[id]]
    /\ sessions' = [r \in DOMAIN sessions |->
                        IF \E id \in ids : id \in DOMAIN activeSessions /\ activeSessions[id] = r
                        THEN [sessions[r] EXCEPT !.isActive = FALSE]
                        ELSE sessions[r]]
    /\ activeSessions' = [id \in (DOMAIN activeSessions) \ ids |-> activeSessions[id]]

EndSession(id) == EndSessions({id})

----------------------------------------------------------------------------
(* Handlers.  A handler that suspends in an await is kept in `inflight`    *)
(* with its position.  A handler that only answers its requester (a        *)
(* followUp or editReply after which it does nothing) leaves its answer in *)
(* lastReply; every other step clears lastReply.                           *)

Reply(result) == lastReply' = result

Silent == lastReply' = NoReply

\* MaxInflight bounds the button handlers in flight; the creates in flight
\* are bounded by MaxSessions
ButtonsInFlight == {op \in inflight : op.kind # "create"}

Suspend(action, r, u, pc) ==
    /\ action # "create" => Cardinality(ButtonsInFlight) < MaxInflight
    /\ inflight' = inflight \cup {[kind |-> action, r |-> r, user |-> u, pc |-> pc]}
    /\ Silent

Resume(op, pc) ==
    /\ inflight' = (inflight \ {op}) \cup {[op EXCEPT !.pc = pc]}
    /\ Silent

Finish(op) ==
    /\ inflight' = inflight \ {op}
    /\ Silent

\* a create, or a button action that changes a record
Counted ==
    /\ ops < MaxOps
    /\ ops' = ops + 1

----------------------------------------------------------------------------
(* execute: /startsession *)

\* `session_${guild.id}_${Date.now()}`: two creates of one guild in the same
\* millisecond get the same id; a create in a later millisecond gets a new one.
SessionIds == {sessions[r].id : r \in Refs}

\* Nothing comes back from the network within the millisecond a request is
\* sent in: the create that took the same Date.now() is still awaiting its
\* editReply and no button of its message has been handled yet.
Untouched(r) ==
    /\ sessions[r].isActive
    /\ Len(sessions[r].participants) = 1
    /\ sessions[r].participants[1].user = sessions[r].hostId
    /\ \A op \in inflight : op.r = r => op.kind = "create"

SameMillisecondIds ==
    {sessions[op.r].id : op \in {o \in inflight : o.kind = "create" /\ Untouched(o.r)}}

FreshIds == IF Cardinality(SessionIds) < MaxIds THEN {Len(sessions) + 1} ELSE {}

SessionIdChoices == FreshIds \cup SameMillisecondIds

\* a record whose creator is entered as an ordinary participant
NewSession_NoHost(id, u, timestamp) ==
    [id |-> id,
     hostId |-> u,
     scheduledTime |-> timestamp,
     participants |-> ParticipantsSet(<<>>, u, FALSE),
     createdAt |-> now,
     gameName |-> "game",
     description |-> "",
     channelId |-> "channel",
     guildId |-> "guild",
     messageId |-> NoMessage,
     isActive |-> TRUE]

NewSession(id, u, timestamp) ==
    [id |-> id,
     hostId |-> u,
     scheduledTime |-> timestamp,
     participants |-> ParticipantsSet(<<>>, u, TRUE),
     createdAt |-> now,
     gameName |-> "game",
     description |-> "",
     channelId |-> "channel",
     guildId |-> "guild",
     messageId |-> NoMessage,
     isActive |-> TRUE]

\* a horizon check that lets every parsed instant through
TooFarAhead_Never(timestamp, t) == FALSE

\* a horizon check that allows one hour more
TooFarAhead_Loose(timestamp, t) == timestamp > t + MaxAhead + 60

\* lines 77-78
TooFarAhead(timestamp, t) == timestamp > t + MaxAhead

NoTimer == [state |-> "none", at |-> 0, firedAt |-> 0]

\* lines 56-115: up to the await of interaction.editReply
Execute(u, inp) ==
    LET parsedTime == ParseTimeInput(inp, now) IN
    /\ IF ~parsedTime.success THEN
            /\ Reply("InvalidTime")
            /\ UNCHANGED <<sessions, activeSessions, reminderTimers, inflight, ops>>
       ELSE IF TooFarAhead(parsedTime.timestamp, now) THEN
            /\ Reply("TooFar")
            /\ UNCHANGED <<sessions, activeSessions, reminderTimers, inflight, ops>>
       ELSE
            /\ Len(sessions) < MaxSessions
            /\ \E id \in SessionIdChoices :
                /\ sessions' = Append(sessions, NewSession(id, u, parsedTime.timestamp))
                /\ activeSessions' = MapSet(activeSessions, id, Len(sessions) + 1)
            /\ reminderTimers' = Append(reminderTimers, NoTimer)
            /\ Suspend("create", Len(sessions) + 1, u, "render")
            /\ Counted
    /\ UNCHANGED <<now, nextSweep, scheduledReminders, graceTimers, cleanupTimers, endedEarly>>

\* the commands arrive up to MaxCreateTime
ExecuteStart(u, inp) ==
    /\ now <= MaxCreateTime
    /\ Execute(u, inp)

\* a delay computed one clock step too long
TimeUntilStart_Late(s, t) == s.scheduledTime - t + TickStep

\* scheduleReminder: timeUntilStart and the setTimeout
TimeUntilStart(s, t) == s.scheduledTime - t

ScheduleReminder(r, s) ==
    IF TimeUntilStart(s, now) <= 0 THEN
        UNCHANGED <<reminderTimers, scheduledReminders>>
    ELSE
        /\ reminderTimers' = [reminderTimers EXCEPT
                                 ![r] = [state |-> "armed",
                                         at |-> now + TimeUntilStart(s, now),
                                         firedAt |-> 0]]
        /\ scheduledReminders' = MapSet(scheduledReminders, s.id, r)

\* lines 115-137: editReply has answered (ok) or thrown (the catch answers
\* with a failure message)
ExecuteFinish(op, ok) ==
    /\ op \in inflight /\ op.kind = "create" /\ op.pc = "render"
    /\ IF ok THEN
            /\ Finish(op)
            /\ sessions' = [sessions EXCEPT ![op.r].messageId = op.r]
            /\ activeSessions' = MapSet(activeSessions, sessions[op.r].id, op.r)
            /\ IF sessions[op.r].scheduledTime > now
               THEN ScheduleReminder(op.r, sessions[op.r])
               ELSE UNCHANGED <<reminderTimers, scheduledReminders>>
       ELSE
            /\ inflight' = inflight \ {op}
            /\ Reply("Failed")
            /\ UNCHANGED <<sessions, activeSessions, reminderTimers, scheduledReminders>>
    /\ UNCHANGED <<now, nextSweep, graceTimers, cleanupTimers, ops, endedEarly>>

----------------------------------------------------------------------------
(* handleButtonInteraction: a button of message m (the message of record   *)
(* m) carries the session id of that record in its customId.               *)

\* A button of message m can be pressed once the message may be on screen:
\* its create is awaiting the answer of editReply, or has got it.  An
\* editReply that throws has posted nothing.
Posted(m) ==
    /\ m \in Refs
    /\ \/ sessions[m].messageId # NoMessage
       \/ \E op \in inflight : op.kind = "create" /\ op.r = m

FindSessionByMessage(m) ==
    {id \in DOMAIN activeSessions : sessions[activeSessions[id]].messageId = m}

\* a lookup that takes the record the message was posted for
Lookup_OfMessage(m) == m

\* the reference the handler works on, or 0 when the session is not found
Lookup(m) ==
    LET sessionId == sessions[m].id IN
    IF sessionId \in DOMAIN activeSessions THEN activeSessions[sessionId]
    ELSE IF FindSessionByMessage(m) # {}
         THEN activeSessions[CHOOSE id \in FindSessionByMessage(m) : TRUE]
         ELSE 0

\* lines 155-188: the answers given before the action is dispatched
Refused(m) ==
    /\ \/ Lookup(m) = 0 /\ Reply("NotFound")
       \/ Lookup(m) # 0 /\ ~sessions[Lookup(m)].isActive /\ Reply("Expired")
    /\ UNCHANGED <<now, nextSweep, sessions, activeSessions, scheduledReminders,
                   reminderTimers, graceTimers, cleanupTimers, inflight, ops, endedEarly>>

Dispatched(m) == Lookup(m) # 0 /\ sessions[Lookup(m)].isActive

----------------------------------------------------------------------------
(* handleJoin *)

\* a join that enters the user as host
JoinedParticipants_Host(parts, u) == ParticipantsSet(parts, u, TRUE)

\* lines 411-415
JoinedParticipants(parts, u) == ParticipantsSet(parts, u, FALSE)

\* lines 399-418: up to the await inside updateSessionMessage
HandleJoin(u, m) ==
    /\ Posted(m)
    /\ \/ Refused(m)
       \/ /\ Dispatched(m)
          /\ LET r == Lookup(m) IN
             IF Has(sessions[r].participants, u) THEN
                /\ Reply("AlreadyJoined")
                /\ UNCHANGED <<sessions, inflight, ops>>
             ELSE
                /\ sessions' = [sessions EXCEPT
                                   ![r].participants = JoinedParticipants(@, u)]
                /\ Suspend("join", r, u, "render")
                /\ Counted
          /\ UNCHANGED <<now, nextSweep, activeSessions, scheduledReminders, reminderTimers,
                         graceTimers, cleanupTimers, endedEarly>>

----------------------------------------------------------------------------
(* handleLeave *)

\* a host transfer that also postpones the start
TransferHost_Postpone(s) ==
    [s EXCEPT !.participants = [@ EXCEPT ![1].isHost = TRUE],
              !.hostId = s.participants[1].user,
              !.scheduledTime = @ + GracePeriod]

\* lines 458-466: the first remaining participant becomes host
TransferHost(s) ==
    [s EXCEPT !.participants = [@ EXCEPT ![1].isHost = TRUE],
              !.hostId = s.participants[1].user]

\* a leave that also postpones the start
AfterLeave_Postpone(s, u) ==
    [s EXCEPT !.participants = ParticipantsDelete(@, u),
              !.scheduledTime = @ + GracePeriod]

\* a leave whose change of the record is still to come
AfterLeave_Deferred(s, u) == s

AfterLeave(s, u) ==
    LET isHost == IsHostOf(s.participants, u)
        left == [s EXCEPT !.participants = ParticipantsDelete(@, u)]
    IN  IF isHost /\ Len(left.participants) > 0 THEN TransferHost(left) ELSE left

\* lines 442-469: up to the await inside updateSessionMessage
HandleLeave(u, m) ==
    /\ Posted(m)
    /\ \/ Refused(m)
       \/ /\ Dispatched(m)
          /\ LET r == Lookup(m) IN
             IF ~Has(sessions[r].participants, u) THEN
                /\ Reply("NotInSession")
                /\ UNCHANGED <<sessions, inflight, ops>>
             ELSE
                /\ sessions' = [sessions EXCEPT ![r] = AfterLeave(@, u)]
                /\ Suspend("leave", r, u, "render")
                /\ Counted
          /\ UNCHANGED <<now, nextSweep, activeSessions, scheduledReminders, reminderTimers,
                         graceTimers, cleanupTimers, endedEarly>>

----------------------------------------------------------------------------
(* updateSessionMessage: the role fetch and message.edit have answered.    *)
(* When they succeed the record is put back under its id; when the role is *)
(* gone or the edit throws, nothing is written.                            *)

\* a render whose failure drops the record from the registry
RegistryAfterRender_Rollback(reg, s, r, ok) ==
    IF ok THEN MapSet(reg, s.id, r) ELSE MapDelete(reg, s.id)

RegistryAfterRender(reg, s, r, ok) == IF ok THEN MapSet(reg, s.id, r) ELSE reg

\* handleJoin only sends its confirmation afterwards; handleLeave goes on
UpdateSessionMessage(op, ok) ==
    /\ op \in inflight /\ op.kind \in {"join", "leave"} /\ op.pc = "render"
    /\ activeSessions' = RegistryAfterRender(activeSessions, sessions[op.r], op.r, ok)
    /\ IF op.kind = "join" THEN Finish(op) ELSE Resume(op, "followUp")
    /\ UNCHANGED <<now, nextSweep, sessions, scheduledReminders, reminderTimers,
                   graceTimers, cleanupTimers, ops, endedEarly>>

\* lines 482-494: the confirmation of handleLeave has been sent (ok) or has
\* thrown; after it the grace-period check is armed when nobody is left
GraceTimersAfterLeave(timers, s, ok) ==
    IF ok /\ Len(s.participants) = 0
    THEN timers \cup {[id |-> s.id, at |-> now + GracePeriod]}
    ELSE timers

LeaveFollowUp(op, ok) ==
    /\ op \in inflight /\ op.kind = "leave" /\ op.pc = "followUp"
    /\ Finish(op)
    /\ graceTimers' = GraceTimersAfterLeave(graceTimers, sessions[op.r], ok)
    /\ UNCHANGED <<now, nextSweep, sessions, activeSessions, scheduledReminders,
                   reminderTimers, cleanupTimers, ops, endedEarly>>

\* the deferred check of handleLeave, lines 489-493
GraceCheck(t) ==
    /\ t \in graceTimers /\ t.at <= now
    /\ graceTimers' = graceTimers \ {t}
    /\ IF t.id \in DOMAIN activeSessions
          /\ Len(sessions[activeSessions[t.id]].participants) = 0
       THEN EndSession(t.id)
       ELSE UNCHANGED <<sessions, activeSessions, scheduledReminders, reminderTimers>>
    /\ Silent
    /\ UNCHANGED <<now, nextSweep, cleanupTimers, inflight, ops, endedEarly>>

----------------------------------------------------------------------------
(* handleInfo *)

HandleInfo(u, m) ==
    /\ Posted(m)
    /\ \/ Refused(m)
       \/ /\ Dispatched(m)
          /\ Reply("Shown")
          /\ UNCHANGED <<now, nextSweep, sessions, activeSessions, scheduledReminders,
                         reminderTimers, graceTimers, cleanupTimers, inflight, ops, endedEarly>>

----------------------------------------------------------------------------
(* handleEndEvent *)

\* a permission check that lets every participant end the session
MayEnd_Participant(s, u) == s.hostId = u \/ Has(s.participants, u)

\* line 544: only the user recorded as hostId passes
MayEnd(s, u) == s.hostId = u

\* history: the requester is the host of the registered record and ends it
\* strictly before its scheduled time
EndedEarlyAfter(r, u) ==
    IF /\ now < sessions[r].scheduledTime
       /\ sessions[r].hostId = u
       /\ sessions[r].id \in DOMAIN activeSessions
       /\ activeSessions[sessions[r].id] = r
    THEN endedEarly \cup {sessions[r].id}
    ELSE endedEarly

\* lines 539-576: a host alone ends at once; with other participants the
\* handler first awaits channel.send
HandleEndEvent(u, m) ==
    /\ Posted(m)
    /\ \/ Refused(m)
       \/ /\ Dispatched(m)
          /\ LET r == Lookup(m) IN
             IF ~MayEnd(sessions[r], u) THEN
                /\ Reply("PermissionDenied")
                /\ UNCHANGED <<sessions, activeSessions, scheduledReminders, reminderTimers,
                               inflight, ops, endedEarly>>
             ELSE IF Len(sessions[r].participants) > 1 THEN
                /\ Suspend("end", r, u, "send")
                /\ Counted
                /\ UNCHANGED <<sessions, activeSessions, scheduledReminders, reminderTimers,
                               endedEarly>>
             ELSE
                /\ EndSession(sessions[r].id)
                /\ endedEarly' = EndedEarlyAfter(r, u)
                /\ Reply("Ended")
                /\ Counted
                /\ UNCHANGED inflight
          /\ UNCHANGED <<now, nextSweep, graceTimers, cleanupTimers>>

\* lines 566-582: channel.send has answered or thrown (the error is caught)
EndEventFinish(op) ==
    /\ op \in inflight /\ op.kind = "end" /\ op.pc = "send"
    /\ inflight' = inflight \ {op}
    /\ Reply("Ended")
    /\ EndSession(sessions[op.r].id)
    /\ endedEarly' = EndedEarlyAfter(op.r, op.user)
    /\ UNCHANGED <<now, nextSweep, graceTimers, cleanupTimers, ops>>

----------------------------------------------------------------------------
(* The reminder: the setTimeout callback of scheduleReminder runs          *)
(* sendGameTimeReminder on the record it captured.                         *)

\* line 660: everybody but the host
Mentioned(s) == {u \in Keys(s.participants) : u # s.hostId}

\* lines 660-679: the users the notification of channel.send mentions; no
\* notification is sent when nobody but the host takes part
Addressees(s) ==
    IF Mentioned(s) = {} THEN {} ELSE {s.hostId} \cup Mentioned(s)

\* lines 646-665: the timer fires; with nobody to mention the callback returns
ReminderFire(r) ==
    /\ r \in Refs
    /\ reminderTimers[r].state = "armed" /\ reminderTimers[r].at <= now
    /\ reminderTimers' = [reminderTimers EXCEPT
                             ![r].state = IF Mentioned(sessions[r]) = {} THEN "done"
                                          ELSE "sending",
                             ![r].firedAt = now]
    /\ UNCHANGED <<now, nextSweep, sessions, activeSessions, scheduledReminders,
                   graceTimers, cleanupTimers, inflight, ops, endedEarly>>
    /\ Silent

\* lines 675-683: channel.send has answered (ok) or thrown (caught at 702)
ReminderSent(r, ok) ==
    /\ r \in Refs
    /\ reminderTimers[r].state = "sending"
    /\ IF ok THEN
            /\ sessions' = [sessions EXCEPT ![r].scheduledTime = now]
            /\ reminderTimers' = [reminderTimers EXCEPT ![r].state = "editing"]
       ELSE
            /\ reminderTimers' = [reminderTimers EXCEPT ![r].state = "done"]
            /\ UNCHANGED sessions
    /\ UNCHANGED <<now, nextSweep, activeSessions, scheduledReminders,
                   graceTimers, cleanupTimers, inflight, ops, endedEarly>>
    /\ Silent

\* lines 683-700: the role fetch and message.edit have answered (ok) or the
\* edit has thrown (caught at 702); after them the auto-cleanup is armed
CleanupTimersAfterReminder(timers, s, ok) ==
    IF ok THEN timers \cup {[id |-> s.id, at |-> now + AutoCleanup]} ELSE timers

ReminderEdited(r, ok) ==
    /\ r \in Refs
    /\ reminderTimers[r].state = "editing"
    /\ reminderTimers' = [reminderTimers EXCEPT ![r].state = "done"]
    /\ cleanupTimers' = CleanupTimersAfterReminder(cleanupTimers, sessions[r], ok)
    /\ UNCHANGED <<now, nextSweep, sessions, activeSessions, scheduledReminders,
                   graceTimers, inflight, ops, endedEarly>>
    /\ Silent

\* lines 698-700: the auto-cleanup callback
AutoCleanupFire(t) ==
    /\ t \in cleanupTimers /\ t.at <= now
    /\ cleanupTimers' = cleanupTimers \ {t}
    /\ EndSession(t.id)
    /\ UNCHANGED <<now, nextSweep, graceTimers, inflight, ops, endedEarly>>
    /\ Silent

----------------------------------------------------------------------------
(* cleanupExpiredSessions, run by the setInterval of the constructor *)

\* a sweep without the four-hour ceiling
Expired_EmptyOnly(s, t) == Len(s.participants) = 0 /\ t - s.createdAt > EmptyAge

\* a sweep that applies the grace period of handleLeave to empty records
Expired_GraceWindow(s, t) ==
    \/ t - s.createdAt > FourHours
    \/ Len(s.participants) = 0 /\ t - s.createdAt > GracePeriod

Expired(s, t) ==
    \/ t - s.createdAt > FourHours
    \/ Len(s.participants) = 0 /\ t - s.createdAt > EmptyAge

CleanupExpiredSessions ==
    /\ nextSweep <= now
    /\ nextSweep' = nextSweep + SweepInterval
    /\ EndSessions({id \in DOMAIN activeSessions : Expired(sessions[activeSessions[id]], now)})
    /\ UNCHANGED <<now, graceTimers, cleanupTimers, inflight, ops, endedEarly>>
    /\ Silent

----------------------------------------------------------------------------
(* The clock.  A timer runs at its instant: time does not pass a due timer. *)
(* The awaited calls (message edits, sends, follow-ups) answer within       *)
(* seconds, far below the clock's step: time does not pass a pending await. *)

TimerDue ==
    \/ nextSweep <= now
    \/ \E r \in Refs : reminderTimers[r].state = "armed" /\ reminderTimers[r].at <= now
    \/ \E t \in graceTimers \cup cleanupTimers : t.at <= now

AwaitPending ==
    \/ inflight # {}
    \/ \E r \in Refs : reminderTimers[r].state \in {"sending", "editing"}

\* the instants at which a pending timer is due
TimerInstants ==
    {nextSweep}
    \cup {reminderTimers[r].at : r \in {x \in Refs : reminderTimers[x].state = "armed"}}
    \cup {t.at : t \in graceTimers \cup cleanupTimers}

Earliest(S) == CHOOSE x \in S : \A y \in S : x <= y

\* Up to FineUntil the clock visits every step; after it, it goes from one
\* timer instant to the next.
NextInstant ==
    IF now < FineUntil THEN now + TickStep ELSE Earliest(TimerInstants)

\* nothing is left that could act on a record or create one
Quiescent ==
    /\ now >= MaxCreateTime
    /\ activeSessions = EmptyMap
    /\ graceTimers \cup cleanupTimers = {}
    /\ \A r \in Refs : reminderTimers[r].state # "armed"

Tick ==
    /\ ~TimerDue
    /\ ~AwaitPending
    /\ ~Quiescent
    /\ NextInstant <= MaxTime
    /\ now' = NextInstant
    /\ UNCHANGED <<nextSweep, sessions, activeSessions, scheduledReminders, reminderTimers,
                   graceTimers, cleanupTimers, inflight, ops, endedEarly>>
    /\ Silent

----------------------------------------------------------------------------

\* The users are interchangeable: the first /startsession is taken to be u1's.
Creators == IF sessions = <<>> THEN {"u1"} ELSE Users

Next ==
    \/ \E u \in Creators, inp \in TimeInputs : ExecuteStart(u, inp)
    \/ \E op \in inflight, ok \in BOOLEAN : ExecuteFinish(op, ok)
    \/ \E u \in Users, m \in Refs : HandleJoin(u, m)
    \/ \E u \in Users, m \in Refs : HandleLeave(u, m)
    \/ \E u \in Users, m \in Refs : HandleInfo(u, m)
    \/ \E u \in Users, m \in Refs : HandleEndEvent(u, m)
    \/ \E op \in inflight, ok \in BOOLEAN : UpdateSessionMessage(op, ok)
    \/ \E op \in inflight, ok \in BOOLEAN : LeaveFollowUp(op, ok)
    \/ \E op \in inflight : EndEventFinish(op)
    \/ \E t \in graceTimers : GraceCheck(t)
    \/ \E r \in Refs : ReminderFire(r)
    \/ \E r \in Refs, ok \in BOOLEAN : ReminderSent(r, ok)
    \/ \E r \in Refs, ok \in BOOLEAN : ReminderEdited(r, ok)
    \/ \E t \in cleanupTimers : AutoCleanupFire(t)
    \/ CleanupExpiredSessions
    \/ Tick

Spec == Init /\ [][Next]_vars

----------------------------------------------------------------------------
(* Properties *)

Registered == {activeSessions[id] : id \in DOMAIN activeSessions}

Hosts(s) == {i \in 1..Len(s.participants) : s.participants[i].isHost}

\* C1: whenever the participants of a registered, active record are not
\* empty, exactly one of them has isHost = TRUE and hostId is that
\* participant's key.
C1_HostInvariant ==
    \A r \in Registered :
        (sessions[r].isActive /\ Len(sessions[r].participants) > 0) =>
            /\ Cardinality(Hosts(sessions[r])) = 1
            /\ \A i \in Hosts(sessions[r]) : sessions[r].participants[i].user = sessions[r].hostId

\* C2: the registry never holds a record whose isActive is FALSE.
C2_RegistryHoldsOnlyActive ==
    \A r \in Registered : sessions[r].isActive

\* C3: termination is irreversible.  Every id ever given to a record was
\* registered by its create, so an id of a record that is not a registry key
\* has been removed; no step makes such an id a registry key again.
C3_TerminationIrreversible ==
    [][\A id \in SessionIds :
          id \notin DOMAIN activeSessions => id \notin DOMAIN activeSessions']_vars

\* C4: an end request from a user who is not hostId of the record is
\* answered with the permission error and changes nothing: the records, the
\* registry, the reminder handles and timers, the deferred checks and the
\* handlers in flight are all as before.
C4_NonHostEndRejected ==
    [][\A u \in Users, m \in Refs :
          (Dispatched(m) /\ sessions[Lookup(m)].hostId # u /\ HandleEndEvent(u, m)) =>
              /\ lastReply' = "PermissionDenied"
              /\ UNCHANGED <<sessions, activeSessions, scheduledReminders, reminderTimers,
                             graceTimers, cleanupTimers, inflight>>]_vars

C4_Witness ==
    /\ lastReply = "PermissionDenied"
    /\ \E id \in DOMAIN activeSessions :
          /\ sessions[activeSessions[id]].isActive
          /\ Len(sessions[activeSessions[id]].participants) = 2
          /\ id \in DOMAIN scheduledReminders
          /\ reminderTimers[scheduledReminders[id]].state = "armed"

\* C5: once the host has ended a session strictly before its scheduled
\* time, its id is not in the registry, no reminder handle is kept for the
\* id, and no reminder timer of a record with that id is armed or running
\* its callback.
C5_EarlyEndCancelsReminder ==
    \A id \in endedEarly :
        /\ id \notin DOMAIN activeSessions
        /\ id \notin DOMAIN scheduledReminders
        /\ \A r \in Refs : sessions[r].id = id =>
              reminderTimers[r].state \notin {"armed", "sending", "editing"}

\* C6: a registered record left without participants, once the leave that
\* emptied it has returned, has a deferred check pending that is due within
\* the grace period.
C6_GraceCheckPending ==
    \A id \in DOMAIN activeSessions :
        LET r == activeSessions[id] IN
        (/\ sessions[r].isActive
         /\ Len(sessions[r].participants) = 0
         /\ \A op \in inflight : op.r # r) =>
            \E t \in graceTimers : t.id = id /\ t.at <= now + GracePeriod

Fired(r) == reminderTimers[r].state \in {"sending", "editing", "done"}

C8_FireArmsAutoCleanup ==
    \A id \in DOMAIN activeSessions :
        LET r == activeSessions[id] IN
        reminderTimers[r].state = "done" =>
            \E t \in cleanupTimers :
                t.id = id /\ t.at <= reminderTimers[r].firedAt + AutoCleanup

\* C9: no two armed reminder timers belong to records of the same id.
C9_OnePendingReminderPerId ==
    \A r1, r2 \in Refs :
        (/\ reminderTimers[r1].state = "armed"
         /\ reminderTimers[r2].state = "armed"
         /\ sessions[r1].id = sessions[r2].id) => r1 = r2

\* C10: every handle kept in scheduledReminders is the handle of a timer
\* that has not fired.
C10_FiredHandleDiscarded ==
    \A id \in DOMAIN scheduledReminders :
        reminderTimers[scheduledReminders[id]].state = "armed"

CreateInFlight(r) == \E op \in inflight : op.kind = "create" /\ op.r = r

\* C11: once execute has returned, a record it stored has had a reminder
\* armed exactly when its scheduled time was after its creation.
C11_FutureCreateArmsReminder ==
    \A r \in Refs :
        ~CreateInFlight(r) =>
            (sessions[r].scheduledTime > sessions[r].createdAt
                <=> reminderTimers[r].state # "none")

\* C12: the step of execute that stores a new record leaves the registry
\* holding, under the record's id, that record with isActive = TRUE, hostId
\* the requester and the requester as only participant, flagged isHost; when
\* editReply has answered, the registry again maps the id to that record.
C12_CreateStoresHostRecord ==
    [][/\ \A u \in Users, inp \in TimeInputs :
             (ExecuteStart(u, inp) /\ Len(sessions') = Len(sessions) + 1) =>
                 LET r == Len(sessions')
                     s == sessions'[r]
                 IN  /\ s.id \in DOMAIN activeSessions'
                     /\ activeSessions'[s.id] = r
                     /\ s.isActive
                     /\ s.hostId = u
                     /\ s.participants = <<[user |-> u, isHost |-> TRUE]>>
       /\ \A op \in inflight :
             ExecuteFinish(op, TRUE) =>
                 /\ sessions'[op.r].id \in DOMAIN activeSessions'
                 /\ activeSessions'[sessions'[op.r].id] = op.r]_vars

C12_Witness ==
    /\ Len(sessions) = 2
    /\ \E op \in inflight :
          /\ op.kind = "create" /\ op.r = 2
          /\ activeSessions[sessions[2].id] = 2
          /\ sessions[2].isActive
          /\ sessions[2].hostId = "u2"
          /\ sessions[2].participants = <<[user |-> "u2", isHost |-> TRUE]>>

\* C13: a /startsession whose time expression does not parse, or parses to
\* an instant more than 24 hours ahead, is answered with the validation
\* message and changes neither the records, the registry, the reminder
\* handles and timers, the deferred checks nor the handlers in flight.
C13_RejectedCreateNoEffect ==
    [][\A u \in Users, inp \in TimeInputs :
          (/\ ExecuteStart(u, inp)
           /\ \/ ~ParseTimeInput(inp, now).success
              \/ ParseTimeInput(inp, now).timestamp > now + MaxAhead) =>
              /\ lastReply' \in {"InvalidTime", "TooFar"}
              /\ UNCHANGED <<sessions, activeSessions, scheduledReminders, reminderTimers,
                             graceTimers, cleanupTimers, inflight>>]_vars

C13_Witness ==
    /\ lastReply = "TooFar"
    /\ \E id \in DOMAIN activeSessions :
          /\ id \in DOMAIN scheduledReminders
          /\ reminderTimers[scheduledReminders[id]].state = "armed"

----------------------------------------------------------------------------
(* The first /startsession alone: the command arrives at different times   *)
(* of day with a wider range of time expressions, until one is accepted; no *)
(* button is pressed and no time passes.                                    *)

\* minutes after local midnight at which the manager runs: 0:00, 0:30, 21:00
StartClocks == {0, 30, 1260}

InAmounts == {0, 1, 23, 24, 25, 1440, 1441}

WideTimeInputs ==
    {[form |-> "now"], [form |-> "other"]}
    \cup {[form |-> "in", amount |-> n, unit |-> un] :
             n \in InAmounts, un \in Units \cup {"days"}}
    \cup {[form |-> "at", hours |-> h, minutes |-> mi, meridiem |-> me] :
             h \in {0, 1, 8, 12, 13, 20, 23, 24}, mi \in {0, 59, 60}, me \in {"", "am", "pm"}}

InitCreate == \E t \in StartClocks : InitAt(t)

NextCreate ==
    \/ \E u \in Creators, inp \in WideTimeInputs : sessions = <<>> /\ Execute(u, inp)
    \/ \E op \in inflight, ok \in BOOLEAN : ExecuteFinish(op, ok)

SpecCreate == InitCreate /\ [][NextCreate]_vars

In23Hours == [form |-> "in", amount |-> 23, unit |-> "hours"]

In25Hours == [form |-> "in", amount |-> 25, unit |-> "hours"]

\* C14: /startsession answers "too far" to every expression that parses to
\* an instant more than 24 hours ahead, among them "in 25 hours", and stores
\* a record for every expression that parses to an instant less than 24
\* hours ahead, among them "in 23 hours"; every record is stored with its
\* scheduled time at most 24 hours after its creation.
C14_HorizonEnforced ==
    [][\A u \in Users, inp \in WideTimeInputs :
          Execute(u, inp) =>
              LET p == ParseTimeInput(inp, now)
                  stored == /\ Len(sessions') = Len(sessions) + 1
                            /\ sessions'[Len(sessions')].scheduledTime = p.timestamp
                            /\ sessions'[Len(sessions')].createdAt = now
                  rejected == lastReply' = "TooFar" /\ sessions' = sessions
              IN  /\ (p.success /\ p.timestamp - now > MaxAhead) => rejected
                  /\ (p.success /\ p.timestamp - now < MaxAhead) => stored
                  /\ inp = In25Hours => rejected
                  /\ inp = In23Hours =>
                        stored /\ sessions'[Len(sessions')].scheduledTime = now + 23 * 60
                  /\ \A r \in DOMAIN sessions' :
                        sessions'[r].scheduledTime - sessions'[r].createdAt <= MaxAhead]_vars

C14_Witness ==
    \E r \in Refs :
        /\ sessions[r].createdAt = 1260
        /\ sessions[r].scheduledTime - sessions[r].createdAt = 23 * 60
        /\ reminderTimers[r].state = "armed"

----------------------------------------------------------------------------

\* C15: a Join pressed by a user who is already a participant is answered
\* "already joined" and changes nothing; a Join pressed by a user who is not
\* a participant appends exactly that user, with isHost = FALSE, to the
\* participants of the record and changes nothing else in any record.
C15_JoinIdempotent ==
    [][\A u \in Users, m \in Refs :
          (Posted(m) /\ Dispatched(m) /\ HandleJoin(u, m)) =>
              LET r == Lookup(m)
                  parts == sessions[r].participants
              IN  IF u \in Keys(parts) THEN
                      /\ lastReply' = "AlreadyJoined"
                      /\ UNCHANGED <<sessions, activeSessions, scheduledReminders,
                                     reminderTimers, graceTimers, cleanupTimers, inflight>>
                  ELSE
                      /\ sessions'[r].participants = Append(parts, [user |-> u, isHost |-> FALSE])
                      /\ Len(sessions'[r].participants) = Len(parts) + 1
                      /\ sessions' = [sessions EXCEPT ![r].participants = sessions'[r].participants]
                      /\ UNCHANGED <<activeSessions, scheduledReminders, reminderTimers>>]_vars

C15_Witness ==
    /\ lastReply = "AlreadyJoined"
    /\ \E r \in Registered :
          /\ Len(sessions[r].participants) = 2
          /\ sessions[r].participants[2].isHost = FALSE

----------------------------------------------------------------------------
(* The buttons of one session: u1's "/startsession now" has been answered   *)
(* and its message is on screen; from there on only buttons are pressed.    *)
(* The session has no reminder, so no reminder action is ever enabled.      *)

InitHosted ==
    /\ now = 0
    /\ nextSweep = SweepInterval
    /\ sessions = <<[NewSession(1, "u1", 0) EXCEPT !.messageId = 1]>>
    /\ activeSessions = MapSet(EmptyMap, 1, 1)
    /\ scheduledReminders = EmptyMap
    /\ reminderTimers = <<NoTimer>>
    /\ graceTimers = {}
    /\ cleanupTimers = {}
    /\ inflight = {}
    /\ lastReply = NoReply
    /\ ops = 0
    /\ endedEarly = {}

NextHosted ==
    \/ \E u \in Users, m \in Refs : HandleJoin(u, m)
    \/ \E u \in Users, m \in Refs : HandleLeave(u, m)
    \/ \E u \in Users, m \in Refs : HandleInfo(u, m)
    \/ \E u \in Users, m \in Refs : HandleEndEvent(u, m)
    \/ \E op \in inflight, ok \in BOOLEAN : UpdateSessionMessage(op, ok)
    \/ \E op \in inflight, ok \in BOOLEAN : LeaveFollowUp(op, ok)
    \/ \E op \in inflight : EndEventFinish(op)
    \/ \E t \in graceTimers : GraceCheck(t)
    \/ CleanupExpiredSessions
    \/ Tick

SpecHosted == InitHosted /\ [][NextHosted]_vars

Remaining(parts, u) == SelectSeq(parts, LAMBDA p : p.user # u)

\* C16: when the user recorded as host (hostId) leaves and others remain,
\* the participants lose exactly that user, the first of the remaining ones
\* is flagged isHost and hostId becomes that participant's key; when another
\* participant leaves, hostId and the entries of the remaining participants
\* are unchanged.
C16_HostTransferOnLeave ==
    [][\A u \in Users, m \in Refs :
          (/\ Posted(m) /\ Dispatched(m)
           /\ u \in Keys(sessions[Lookup(m)].participants)
           /\ HandleLeave(u, m)) =>
              LET r == Lookup(m)
                  rest == Remaining(sessions[r].participants, u)
              IN  /\ Len(sessions'[r].participants) = Len(sessions[r].participants) - 1
                  /\ Keys(sessions'[r].participants) = Keys(rest)
                  /\ IF u = sessions[r].hostId THEN
                         Len(rest) > 0 =>
                             /\ sessions'[r].hostId = rest[1].user
                             /\ sessions'[r].participants[1].user = rest[1].user
                             /\ sessions'[r].participants[1].isHost
                     ELSE
                         /\ sessions'[r].hostId = sessions[r].hostId
                         /\ sessions'[r].participants = rest]_vars

\* C17: a Leave pressed by a user who is not a participant is answered "not
\* in session" and changes nothing: no record, no registry entry, no
\* reminder, no handler in flight, and no deferred check is armed.
C17_LeaveOfNonParticipant ==
    [][\A u \in Users, m \in Refs :
          (/\ Posted(m) /\ Dispatched(m)
           /\ u \notin Keys(sessions[Lookup(m)].participants)
           /\ HandleLeave(u, m)) =>
              /\ lastReply' = "NotInSession"
              /\ UNCHANGED <<sessions, activeSessions, scheduledReminders, reminderTimers,
                             graceTimers, cleanupTimers, inflight>>]_vars

C17_Witness ==
    /\ lastReply = "NotInSession"
    /\ graceTimers = {}
    /\ \E r \in Registered : sessions[r].isActive /\ Len(sessions[r].participants) = 0

\* C18: a sweep removes from the registry every record created more than
\* four hours ago, whatever its participants, and leaves no reminder timer
\* of such a record armed; a record created less than four hours ago that
\* has a participant stays registered under its id, unchanged, with its
\* reminder timer as it was.
C18_SweepFourHours ==
    [][CleanupExpiredSessions =>
          \A id \in DOMAIN activeSessions :
              LET r == activeSessions[id] IN
              /\ now - sessions[r].createdAt > FourHours =>
                    /\ id \notin DOMAIN activeSessions'
                    /\ reminderTimers'[r].state # "armed"
              /\ (now - sessions[r].createdAt < FourHours /\ Len(sessions[r].participants) > 0) =>
                    /\ id \in DOMAIN activeSessions'
                    /\ activeSessions'[id] = r
                    /\ sessions'[r] = sessions[r]
                    /\ reminderTimers'[r] = reminderTimers[r]]_vars

\* C19 (as stated): a sweep removes from the registry every record that has
\* no participant and was created more than the five-minute grace period ago.
C19_SweepEmptyAfterGrace ==
    [][CleanupExpiredSessions =>
          \A id \in DOMAIN activeSessions :
              LET s == sessions[activeSessions[id]] IN
              (Len(s.participants) = 0 /\ now - s.createdAt > GracePeriod) =>
                  id \notin DOMAIN activeSessions']_vars

\* C19 (amended): a sweep removes from the registry every record that has no
\* participant and was created more than thirty minutes ago, and keeps
\* registered every record without participants created at most thirty
\* minutes ago.
C19_SweepEmptyAfterThirtyMinutes ==
    [][CleanupExpiredSessions =>
          \A id \in DOMAIN activeSessions :
              LET r == activeSessions[id]
                  s == sessions[r] IN
              Len(s.participants) = 0 =>
                  IF now - s.createdAt > EmptyAge
                  THEN id \notin DOMAIN activeSessions'
                  ELSE id \in DOMAIN activeSessions' /\ activeSessions'[id] = r]_vars

\* a sweep has just removed a record whose only participant left at the
\* instant of the sweep, more than thirty minutes but less than four hours
\* after its creation; the grace-period check of that leave is still pending
C19_Witness ==
    /\ nextSweep = now + SweepInterval
    /\ ops = 2
    /\ \E r \in Refs :
          /\ sessions[r].participants = <<>>
          /\ ~sessions[r].isActive
          /\ sessions[r].id \notin DOMAIN activeSessions
          /\ now - sessions[r].createdAt > EmptyAge
          /\ now - sessions[r].createdAt < FourHours
          /\ [id |-> sessions[r].id, at |-> now + GracePeriod] \in graceTimers

\* C20: when the render of a join or of a leave fails, no record and no
\* registry entry changes: every participant list and hostId is what the
\* handlers left, and a record that was registered stays registered.  The
\* operation goes on: a join is over after the render, a leave proceeds to
\* its confirmation, after which the grace-period check is armed when the
\* record has no participant left.
C20_RenderFailureKeepsChange ==
    [][/\ \A op \in inflight :
            UpdateSessionMessage(op, FALSE) =>
                /\ sessions' = sessions
                /\ activeSessions' = activeSessions
                /\ (op.kind = "join") => op \notin inflight'
                /\ (op.kind = "leave") => [op EXCEPT !.pc = "followUp"] \in inflight'
       /\ \A op \in inflight :
            LeaveFollowUp(op, TRUE) =>
                /\ sessions' = sessions
                /\ Len(sessions[op.r].participants) = 0 =>
                      [id |-> sessions[op.r].id, at |-> now + GracePeriod] \in graceTimers']_vars

\* the host has left a session that another user had joined and the render
\* of the leave has returned: the record is registered with the other user
\* as its host and the leave is about to send its confirmation
C20_Witness ==
    \E op \in inflight :
        /\ op.kind = "leave" /\ op.pc = "followUp"
        /\ sessions[op.r].id \in DOMAIN activeSessions
        /\ activeSessions[sessions[op.r].id] = op.r
        /\ sessions[op.r].hostId # op.user
        /\ Len(sessions[op.r].participants) = 1
        /\ sessions[op.r].participants[1] = [user |-> sessions[op.r].hostId, isHost |-> TRUE]
        /\ sessions[op.r].createdAt = now

\* C21: at the step at which a join or a leave issues its render, the record
\* already carries the change: the joiner is its last participant, not a
\* host; the leaver is no longer a participant, the others are kept in
\* order, and when the leaver was flagged host and others remain, the first
\* of them is flagged host and is the record's hostId.
C21_MutationBeforeRender ==
    [][\A op \in inflight' \ inflight :
          LET old == sessions[op.r]
              new == sessions'[op.r]
              rest == Remaining(old.participants, op.user) IN
          /\ (op.kind = "join" /\ op.pc = "render") =>
                /\ new.participants = Append(old.participants, [user |-> op.user, isHost |-> FALSE])
                /\ new.hostId = old.hostId
          /\ (op.kind = "leave" /\ op.pc = "render") =>
                /\ ~Has(new.participants, op.user)
                /\ Len(new.participants) = Len(rest)
                /\ \A i \in 1..Len(rest) : new.participants[i].user = rest[i].user
                /\ (IsHostOf(old.participants, op.user) /\ Len(rest) > 0) =>
                      /\ new.participants[1].isHost
                      /\ new.hostId = rest[1].user]_vars

\* the render of a leave is pending and the record already shows the leaver
\* gone and the host transferred to the participant who remained
C21_Witness ==
    \E op \in inflight :
        /\ op.kind = "leave" /\ op.pc = "render"
        /\ ~Has(sessions[op.r].participants, op.user)
        /\ Len(sessions[op.r].participants) = 1
        /\ sessions[op.r].hostId # op.user
        /\ sessions[op.r].participants[1] = [user |-> sessions[op.r].hostId, isHost |-> TRUE]

\* C22: when channel.send throws during the reminder fire, the record gets
\* the state a successful send gives it: scheduledTime is set to the
\* instant of the fire, the callback goes on to the re-render after which
\* the auto-cleanup is armed, and the registry and the participants are
\* unchanged.
C22_SendFailureSwallowed ==
    [][\A r \in Refs :
          ReminderSent(r, FALSE) =>
              /\ sessions' = [sessions EXCEPT ![r].scheduledTime = now]
              /\ reminderTimers' = [reminderTimers EXCEPT ![r].state = "editing"]
              /\ activeSessions' = activeSessions]_vars

\* C23: when a reminder fires, the notification mentions the host and every
\* participant who is not the host, whatever the participants are, also
\* when the host is the only one.
C23_ReminderAddressesHostAndOthers ==
    [][\A r \in Refs :
          ReminderFire(r) =>
              Addressees(sessions[r]) =
                  {sessions[r].hostId}
                  \cup {u \in Keys(sessions[r].participants) : u # sessions[r].hostId}]_vars

\* C24: a create that stores a record gives it an id that is not a key of
\* the registry, so every registered id goes on referring to the record it
\* referred to, and every handle of scheduledReminders stays in place.
C24_CreateTakesFreshId ==
    [][Len(sessions') = Len(sessions) + 1 =>
          /\ sessions'[Len(sessions')].id \notin DOMAIN activeSessions
          /\ \A id \in DOMAIN activeSessions :
                id \in DOMAIN activeSessions' /\ activeSessions'[id] = activeSessions[id]
          /\ scheduledReminders' = scheduledReminders]_vars

\* the session id carried by the buttons of message m is not a registry key
\* and no registered record has m as its message
Unknown(m) ==
    /\ sessions[m].id \notin DOMAIN activeSessions
    /\ \A id \in DOMAIN activeSessions : sessions[activeSessions[id]].messageId # m

\* C25: a join, leave, info or end button pressed on a message whose session
\* id is not registered and that is the message of no registered record is
\* answered with not-found and changes nothing: no record, no registry
\* entry, no timer, no handler in flight.
C25_UnknownSessionNotFound ==
    [][\A m \in Refs :
          (/\ Unknown(m)
           /\ \E u \in Users : \/ HandleJoin(u, m)
                               \/ HandleLeave(u, m)
                               \/ HandleInfo(u, m)
                               \/ HandleEndEvent(u, m)) =>
              /\ lastReply' = "NotFound"
              /\ UNCHANGED <<sessions, activeSessions, scheduledReminders, reminderTimers,
                             graceTimers, cleanupTimers, inflight>>]_vars

\* a button of the message of an ended session has just been answered with
\* not-found
C25_Witness ==
    /\ lastReply = "NotFound"
    /\ \E m \in Refs : Posted(m) /\ Unknown(m) /\ ~sessions[m].isActive

----------------------------------------------------------------------------
(* Two sessions with different ids.  u1 has created a session for "now"     *)
(* and, a few milliseconds later, u2 one for "in 5 minutes"; both replies   *)
(* are on screen and the reminder of the second is armed.  From there on    *)
(* buttons are pressed and timers run.                                      *)

InitPair ==
    /\ now = 0
    /\ nextSweep = SweepInterval
    /\ sessions = << [NewSession(1, "u1", 0) EXCEPT !.messageId = 1],
                     [NewSession(2, "u2", GracePeriod) EXCEPT !.messageId = 2] >>
    /\ activeSessions = MapSet(MapSet(EmptyMap, 1, 1), 2, 2)
    /\ scheduledReminders = MapSet(EmptyMap, 2, 2)
    /\ reminderTimers = << NoTimer, [state |-> "armed", at |-> GracePeriod, firedAt |-> 0] >>
    /\ graceTimers = {}
    /\ cleanupTimers = {}
    /\ inflight = {}
    /\ lastReply = NoReply
    /\ ops = 0
    /\ endedEarly = {}

NextPair ==
    \/ \E u \in Users, m \in Refs : HandleJoin(u, m)
    \/ \E u \in Users, m \in Refs : HandleLeave(u, m)
    \/ \E u \in Users, m \in Refs : HandleInfo(u, m)
    \/ \E u \in Users, m \in Refs : HandleEndEvent(u, m)
    \/ \E op \in inflight, ok \in BOOLEAN : UpdateSessionMessage(op, ok)
    \/ \E op \in inflight, ok \in BOOLEAN : LeaveFollowUp(op, ok)
    \/ \E op \in inflight : EndEventFinish(op)
    \/ \E t \in graceTimers : GraceCheck(t)
    \/ \E r \in Refs : ReminderFire(r)
    \/ \E r \in Refs, ok \in BOOLEAN : ReminderSent(r, ok)
    \/ \E r \in Refs, ok \in BOOLEAN : ReminderEdited(r, ok)
    \/ \E t \in cleanupTimers : AutoCleanupFire(t)
    \/ CleanupExpiredSessions
    \/ Tick

SpecPair == InitPair /\ [][NextPair]_vars

\* what the manager holds for one session id: its records with their
\* reminder timers, its registry entry and its reminder handle
OfId(id) ==
    << [r \in {x \in Refs : sessions[x].id = id} |-> <<sessions[r], reminderTimers[r]>>],
       IF id \in DOMAIN activeSessions THEN activeSessions[id] ELSE 0,
       IF id \in DOMAIN scheduledReminders THEN scheduledReminders[id] ELSE 0 >>

\* C26: a join, leave, end, reminder fire, grace-period deletion or
\* auto-cleanup works on one session id: a step other than the sweep changes
\* the records, participants, hostId, scheduledTime, registry entry and
\* reminder of at most one id and leaves those of every other id as they
\* were.
C26_IdsIndependent ==
    [][nextSweep' = nextSweep =>
          \A id1, id2 \in SessionIds :
              id1 # id2 => (OfId(id1)' = OfId(id1) \/ OfId(id2)' = OfId(id2))]_vars

\* the first session has been ended by its host while the second, untouched,
\* is still registered with its reminder armed
C26_Witness ==
    /\ lastReply = "Ended"
    /\ 1 \notin DOMAIN activeSessions
    /\ ~sessions[1].isActive
    /\ 2 \in DOMAIN activeSessions /\ activeSessions[2] = 2
    /\ sessions[2].participants = <<[user |-> "u2", isHost |-> TRUE]>>
    /\ reminderTimers[2].state = "armed"
    /\ scheduledReminders[2] = 2

----------------------------------------------------------------------------

\* C27: for "in N unit" the parser succeeds exactly when 1 <= N <= 1440 and
\* the unit is one of minute, minutes, min, mins, hour, hours, hr, hrs, and
\* then returns now + N minutes for a minute unit and now + N hours for an
\* hour unit.  /startsession answers "invalid time" exactly to the
\* expressions that fail, and stores the returned instant unless it lies
\* more than 24 hours ahead.
C27_InFormParsed ==
    [][\A inp \in {i \in WideTimeInputs : i.form = "in"} :
          LET valid == /\ 1 <= inp.amount /\ inp.amount <= 1440
                       /\ inp.unit \in {"minute", "minutes", "min", "mins",
                                        "hour", "hours", "hr", "hrs"}
              instant == IF inp.unit \in {"hour", "hours", "hr", "hrs"}
                         THEN now + inp.amount * 60
                         ELSE now + inp.amount
              p == ParseTimeInput(inp, now)
          IN  /\ p.success <=> valid
              /\ p.success => p.timestamp = instant
              /\ Execute("u1", inp) =>
                    IF ~valid THEN lastReply' = "InvalidTime" /\ sessions' = sessions
                    ELSE IF instant > now + MaxAhead THEN lastReply' = "TooFar"
                    ELSE /\ Len(sessions') = Len(sessions) + 1
                         /\ sessions'[Len(sessions')].scheduledTime = instant]_vars

\* a session created at 0:30 for "in 24 hours" (or "in 1440 minutes") is
\* stored for 0:30 of the next day with its reminder armed
C27_Witness ==
    \E r \in Refs :
        /\ sessions[r].createdAt = 30
        /\ sessions[r].scheduledTime = 30 + 1440
        /\ reminderTimers[r].state = "armed"

\* C28: /startsession answers "invalid time" to every "at" expression whose
\* minutes are not in 0..59, whose hour is not in 0..23 when no meridiem is
\* given, or whose hour is not in 1..12 when am or pm is given.
C28_AtFormValidated ==
    [][\A inp \in {i \in WideTimeInputs : i.form = "at"} :
          LET valid == /\ 0 <= inp.minutes /\ inp.minutes <= 59
                       /\ IF inp.meridiem = ""
                          THEN 0 <= inp.hours /\ inp.hours <= 23
                          ELSE 1 <= inp.hours /\ inp.hours <= 12
          IN  (~valid /\ Execute("u1", inp)) =>
                  lastReply' = "InvalidTime" /\ sessions' = sessions]_vars

\* C29: for every "at" expression the parser accepts, the returned instant
\* is the requested time of day on the current day when that is strictly
\* later than now and on the next day otherwise; it is strictly later than
\* now and at most 24 hours after now.
C29_AtFormNextOccurrence ==
    [][\A inp \in {i \in WideTimeInputs : i.form = "at"} :
          LET p == ParseTimeInput(inp, now)
              today == (now - (now % MinutesPerDay)) + AtHours(inp) * 60 + inp.minutes
          IN  (p.success /\ Execute("u1", inp)) =>
                  /\ p.timestamp = IF today > now THEN today ELSE today + MinutesPerDay
                  /\ p.timestamp > now
                  /\ p.timestamp <= now + MinutesPerDay]_vars

----------------------------------------------------------------------------
(* Readers.  getActiveSessionsForGuild returns a new array whose elements   *)
(* are the registered sessionData objects themselves: the reader holds      *)
(* references into `sessions` and sees through them whatever the records    *)
(* hold later.  getStats returns numbers and strings computed at the call.  *)

GetActiveSessionsForGuild ==
    {activeSessions[id] : id \in {x \in DOMAIN activeSessions : sessions[activeSessions[x]].isActive}}

\* C30: what a reader has received from getActiveSessionsForGuild does not
\* change afterwards: no step changes the participants, the hostId, the
\* scheduledTime or the isActive flag of a record the call would have handed
\* out before the step.
C30_ReadersHoldSnapshots ==
    [][\A r \in GetActiveSessionsForGuild :
          /\ sessions'[r].participants = sessions[r].participants
          /\ sessions'[r].hostId = sessions[r].hostId
          /\ sessions'[r].scheduledTime = sessions[r].scheduledTime
          /\ sessions'[r].isActive = sessions[r].isActive]_vars

----------------------------------------------------------------------------

\* C31: the sweep does not remove a session before its scheduled time: a
\* registered record that has a participant and whose scheduledTime is still
\* ahead stays registered under its id through every sweep, with its
\* reminder timer as it was.
C31_SweepSparesScheduled ==
    [][CleanupExpiredSessions =>
          \A id \in DOMAIN activeSessions :
              LET r == activeSessions[id] IN
              (Len(sessions[r].participants) > 0 /\ sessions[r].scheduledTime > now) =>
                  /\ id \in DOMAIN activeSessions'
                  /\ activeSessions'[id] = r
                  /\ reminderTimers'[r] = reminderTimers[r]]_vars

\* C32: an End pressed by a user who is not a participant flagged host of
\* the record is answered with the permission error and ends nothing: the
\* records, the registry, the reminders and the handlers in flight are as
\* before.
C32_OnlyHostParticipantEnds ==
    [][\A u \in Users, m \in Refs :
          (/\ Dispatched(m)
           /\ ~IsHostOf(sessions[Lookup(m)].participants, u)
           /\ HandleEndEvent(u, m)) =>
              /\ lastReply' = "PermissionDenied"
              /\ UNCHANGED <<sessions, activeSessions, scheduledReminders, reminderTimers,
                             inflight>>]_vars

\* C33: a deferred check removes a session only when its participants have
\* been absent for the whole grace period.  A leave that is still in flight
\* on the record, or a deferred check of the same id that is not yet due,
\* shows that somebody was a participant less than the grace period ago: no
\* deferred check removes a registered record in such a state.
C33_GraceNeedsContinuousEmptiness ==
    [][\A t \in graceTimers :
          (/\ GraceCheck(t)
           /\ t.id \in DOMAIN activeSessions
           /\ t.id \notin DOMAIN activeSessions') =>
              /\ \A t2 \in graceTimers : t2.id = t.id => t2.at <= now
              /\ \A op \in inflight :
                    op.kind = "leave" => op.r # activeSessions[t.id]]_vars

\* C34: no step changes the id, gameName, description, createdAt, channelId
\* or guildId of a record, and the only step that assigns a record's
\* scheduledTime is the one of the reminder callback after its notification
\* was sent, which sets it to the instant of that step; join, leave and host
\* transfer leave all these fields as they were.
C34_IdentityFieldsImmutable ==
    [][\A r \in Refs :
          LET old == sessions[r]
              new == sessions'[r] IN
          /\ new.id = old.id
          /\ new.gameName = old.gameName
          /\ new.description = old.description
          /\ new.createdAt = old.createdAt
          /\ new.channelId = old.channelId
          /\ new.guildId = old.guildId
          /\ new.scheduledTime # old.scheduledTime =>
                /\ reminderTimers[r].state = "sending"
                /\ reminderTimers'[r].state = "editing"
                /\ new.scheduledTime = now]_vars

\* the creator of a session for "in 5 hours" has left and the host has been
\* transferred to the user who had joined: the record still has the id,
\* label, creation instant and start time it was created with
C34_Witness ==
    \E r \in Registered :
        /\ sessions[r].participants = <<[user |-> "u2", isHost |-> TRUE]>>
        /\ sessions[r].hostId = "u2"
        /\ sessions[r].id = 1
        /\ sessions[r].gameName = "game"
        /\ sessions[r].createdAt = 0
        /\ sessions[r].scheduledTime = 300
        /\ now > 0

----------------------------------------------------------------------------
(* Progress.  The interval timer of the constructor and every setTimeout   *)
(* run when they are due, the clock advances when nothing is due or        *)
(* awaited, and every awaited call (editReply, message.edit, followUp,     *)
(* channel.send) answers or throws.  Nothing is assumed about the users.   *)

Fairness ==
    /\ WF_vars(Tick)
    /\ WF_vars(CleanupExpiredSessions)
    /\ WF_vars(\E t \in graceTimers : GraceCheck(t))
    /\ WF_vars(\E t \in cleanupTimers : AutoCleanupFire(t))
    /\ WF_vars(\E r \in Refs : ReminderFire(r))
    /\ WF_vars(\E r \in Refs, ok \in BOOLEAN : ReminderSent(r, ok))
    /\ WF_vars(\E r \in Refs, ok \in BOOLEAN : ReminderEdited(r, ok))
    /\ WF_vars(\E op \in inflight, ok \in BOOLEAN : ExecuteFinish(op, ok))
    /\ WF_vars(\E op \in inflight, ok \in BOOLEAN : UpdateSessionMessage(op, ok))
    /\ WF_vars(\E op \in inflight, ok \in BOOLEAN : LeaveFollowUp(op, ok))
    /\ WF_vars(\E op \in inflight : EndEventFinish(op))

\* One /startsession, then buttons and timers: the runs of a single record.
NextLive ==
    \/ \E inp \in TimeInputs : sessions = <<>> /\ ExecuteStart("u1", inp)
    \/ \E op \in inflight, ok \in BOOLEAN : ExecuteFinish(op, ok)
    \/ \E u \in Users, m \in Refs : HandleJoin(u, m)
    \/ \E u \in Users, m \in Refs : HandleLeave(u, m)
    \/ \E u \in Users, m \in Refs : HandleInfo(u, m)
    \/ \E u \in Users, m \in Refs : HandleEndEvent(u, m)
    \/ \E op \in inflight, ok \in BOOLEAN : UpdateSessionMessage(op, ok)
    \/ \E op \in inflight, ok \in BOOLEAN : LeaveFollowUp(op, ok)
    \/ \E op \in inflight : EndEventFinish(op)
    \/ \E t \in graceTimers : GraceCheck(t)
    \/ \E r \in Refs : ReminderFire(r)
    \/ \E r \in Refs, ok \in BOOLEAN : ReminderSent(r, ok)
    \/ \E r \in Refs, ok \in BOOLEAN : ReminderEdited(r, ok)
    \/ \E t \in cleanupTimers : AutoCleanupFire(t)
    \/ CleanupExpiredSessions
    \/ Tick

SpecLive == Init /\ [][NextLive]_vars /\ Fairness

\* C35: every record that is in the registry is later out of it, whatever
\* joins, leaves, render failures and notification failures occur.
C35_EveryRecordRemoved ==
    \A r \in 1..MaxSessions : (r \in Registered) ~> (r \notin Registered)

\* a session that two users stayed in has been removed by the sweep after
\* its fourth hour and nothing is registered any more
C35_Witness ==
    /\ now > FourHours
    /\ activeSessions = EmptyMap
    /\ inflight = {}
    /\ \E r \in Refs :
          /\ ~sessions[r].isActive
          /\ Len(sessions[r].participants) = 2
          /\ sessions[r].messageId # NoMessage

\* C36: a record that is live (scheduledTime <= now) is live after every
\* step: no step moves its scheduledTime past the clock.
C36_LiveIsMonotone ==
    [][\A r \in Refs :
          sessions[r].scheduledTime <= now => sessions'[r].scheduledTime <= now']_vars

\* a session created for "in 5 minutes" whose reminder has fired with two
\* participants is still registered and live later on
C36_Witness ==
    \E r \in Registered :
        /\ sessions[r].isActive
        /\ reminderTimers[r].state = "done"
        /\ sessions[r].scheduledTime = reminderTimers[r].firedAt
        /\ sessions[r].createdAt < sessions[r].scheduledTime
        /\ sessions[r].scheduledTime < now
        /\ Len(sessions[r].participants) = 2

\* C37: every session id that has a handle in scheduledReminders is a key
\* of activeSessions.
C37_HandlesOnlyForRegistered ==
    \A id \in DOMAIN scheduledReminders : id \in DOMAIN activeSessions

\* a session whose reminder was armed has been ended: its timer is cleared
\* and neither the registry nor the handle map holds its id
C37_Witness ==
    \E r \in Refs :
        /\ reminderTimers[r].state = "cleared"
        /\ ~sessions[r].isActive
        /\ sessions[r].id \notin DOMAIN activeSessions
        /\ sessions[r].id \notin DOMAIN scheduledReminders

====
